---------------------------- MODULE Spec2Model ----------------------------
(***************************************************************************)
(* Reed-Solomon error-correction core of the QR code generator             *)
(* (src/main.py): the Polynomial class over GF(256), divide_terms, and the *)
(* message / generator / correction constructors.                          *)
(*                                                                         *)
(* A Python dict is modelled as a TLA+ function whose DOMAIN is the set of *)
(* keys.  The loops over a dict's keys are folds taken in increasing key   *)
(* order; every such loop in main.py writes a different key per iteration  *)
(* or accumulates with the commutative field addition, so the result does  *)
(* not depend on the dict's insertion order.                               *)
(***************************************************************************)
EXTENDS Integers, Sequences, FiniteSets, TLC

(***************************************************************************)
(* The z256 module (imported at main.py:1, not part of src/): GF(256) with *)
(* addition = XOR and multiplication modulo an irreducible polynomial of   *)
(* degree 8.                                                               *)
(***************************************************************************)
FieldSize == 256

PrimitivePolynomial == 285

InField(a) == a \in 0..(FieldSize - 1)

RECURSIVE BitXor(_, _)
BitXor(a, b) ==
    IF a = 0 THEN b
    ELSE IF b = 0 THEN a
    ELSE ((a + b) % 2) + 2 * BitXor(a \div 2, b \div 2)

\* multiplication by x, reduced modulo the field polynomial
XTime(a) ==
    IF 2 * a >= FieldSize THEN BitXor(2 * a, PrimitivePolynomial) ELSE 2 * a

\* a * b as polynomials over GF(2), reduced modulo the field polynomial
RECURSIVE CarrylessMul(_, _)
CarrylessMul(a, b) ==
    IF b = 0 THEN 0
    ELSE BitXor(IF b % 2 = 1 THEN a ELSE 0, CarrylessMul(XTime(a), b \div 2))

\* <<x^0, ..., x^(n-1)>>  |->  <<x^0, ..., x^(2n-1)>>
DoublePowers(s) ==
    s \o [i \in 1..Len(s) |-> CarrylessMul(s[i], XTime(s[Len(s)]))]

\* ExpTable[i + 1] = x^i in the field, i in 0..254
ExpTable ==
    SubSeq(DoublePowers(DoublePowers(DoublePowers(DoublePowers(
           DoublePowers(DoublePowers(DoublePowers(DoublePowers(<<1>>)))))))),
           1, FieldSize - 1)

\* LogTable[a] = the i in 0..254 with x^i = a, for a in 1..255
LogTable ==
    [a \in 1..(FieldSize - 1) |->
        (CHOOSE j \in 1..(FieldSize - 1) : ExpTable[j] = a) - 1]

z256_add(a, b) == BitXor(a, b)

z256_mul(a, b) ==
    IF a = 0 \/ b = 0 THEN 0
    ELSE ExpTable[((LogTable[a] + LogTable[b]) % (FieldSize - 1)) + 1]

\* defined for b # 0; a zero divisor is the field-level failure
z256_div(a, b) ==
    IF a = 0 THEN 0
    ELSE ExpTable[((LogTable[a] + (FieldSize - 1) - LogTable[b])
                      % (FieldSize - 1)) + 1]

RECURSIVE z256_power(_, _)
z256_power(a, n) == IF n = 0 THEN 1 ELSE z256_mul(a, z256_power(a, n - 1))

\* the field primitive takes and returns integers of [0,255] only
z256_rejects(a, b) == ~InField(a) \/ ~InField(b)

z256_div_fails(a, b) == b = 0

(***************************************************************************)
(* Dict helpers.                                                           *)
(***************************************************************************)
EmptyDict == [x \in {} |-> 0]

DictSet(d, k, v) == [x \in (DOMAIN d) \cup {k} |-> IF x = k THEN v ELSE d[x]]

MinKey(S) == CHOOSE m \in S : \A x \in S : m <= x

(***************************************************************************)
(* class Polynomial: a Polynomial value is its _terms dict.                *)
(***************************************************************************)
\* Polynomial.__init__
Polynomial(terms) == terms

\* Polynomial.get_terms
get_terms(self) == self

\* Polynomial.get_degree
get_degree(self) ==
    LET S == {0} \cup {p \in DOMAIN self : p > 0 /\ self[p] # 0}
    IN  CHOOSE m \in S : \A x \in S : x <= m

\* Polynomial.get_coefficient
get_coefficient(self, power) ==
    IF power \in DOMAIN self THEN self[power] ELSE 0

\* Polynomial.__eq__
PolyEq(self, other) ==
    LET terms == get_terms(other)
    IN  /\ \A p \in DOMAIN terms :
              terms[p] # 0 => (p \in DOMAIN self /\ self[p] = terms[p])
        /\ \A p \in DOMAIN self :
              self[p] # 0 => (p \in DOMAIN terms /\ terms[p] = self[p])

\* Polynomial.add_term
add_term(self, coefficient, power) ==
    LET poly_coef == get_coefficient(self, power)
        new_coef  == z256_add(poly_coef, coefficient)
        poly_map  == get_terms(self)
    IN  Polynomial(DictSet(poly_map, power, new_coef))

\* Polynomial.subtract_term
subtract_term(self, coefficient, power) ==
    LET poly_coef == get_coefficient(self, power)
        new_coef  == z256_add(poly_coef, coefficient)
        poly_map  == get_terms(self)
    IN  Polynomial(DictSet(poly_map, power, new_coef))

\* multiply_by_term without the shift of the powers (updated_power = poly_power)
multiply_by_term_no_shift(self, coefficient, power) ==
    LET poly_map == get_terms(self)
    IN  Polynomial([q \in DOMAIN poly_map |->
                       z256_mul(poly_map[q], coefficient)])

\* Polynomial.multiply_by_term
multiply_by_term(self, coefficient, power) ==
    LET poly_map == get_terms(self)
    IN  Polynomial([q \in {p + power : p \in DOMAIN poly_map} |->
                       z256_mul(poly_map[q - power], coefficient)])

\* the loop of add_polynomial over the keys still to visit
RECURSIVE add_polynomial_loop(_, _, _)
add_polynomial_loop(added, other_poly_map, keys) ==
    IF keys = {} THEN added
    ELSE LET other_power == MinKey(keys)
             other_coef  == other_poly_map[other_power]
         IN  add_polynomial_loop(add_term(added, other_coef, other_power),
                                 other_poly_map, keys \ {other_power})

\* Polynomial.add_polynomial
add_polynomial(self, other_polynomial) ==
    LET other_poly_map == get_terms(other_polynomial)
    IN  add_polynomial_loop(Polynomial(get_terms(self)), other_poly_map,
                            DOMAIN other_poly_map)

\* the loop of subtract_polynomial over the keys still to visit
RECURSIVE subtract_polynomial_loop(_, _, _)
subtract_polynomial_loop(subtracted, other_poly_map, keys) ==
    IF keys = {} THEN subtracted
    ELSE LET other_power == MinKey(keys)
             other_coef  == other_poly_map[other_power]
         IN  subtract_polynomial_loop(
                 add_term(subtracted, other_coef, other_power),
                 other_poly_map, keys \ {other_power})

\* Polynomial.subtract_polynomial
subtract_polynomial(self, other_polynomial) ==
    LET other_poly_map == get_terms(other_polynomial)
    IN  subtract_polynomial_loop(Polynomial(get_terms(self)), other_poly_map,
                                 DOMAIN other_poly_map)

\* the loop of multiply_by_polynomial over the keys still to visit
RECURSIVE multiply_by_polynomial_loop(_, _, _, _)
multiply_by_polynomial_loop(self, multiplied_out, other_poly_map, keys) ==
    IF keys = {} THEN multiplied_out
    ELSE LET other_power     == MinKey(keys)
             other_coef      == other_poly_map[other_power]
             term_multiplied == multiply_by_term(self, other_coef, other_power)
         IN  multiply_by_polynomial_loop(
                 self, add_polynomial(multiplied_out, term_multiplied),
                 other_poly_map, keys \ {other_power})

\* Polynomial.multiply_by_polynomial
multiply_by_polynomial(self, other_polynomial) ==
    LET other_poly_map == get_terms(other_polynomial)
    IN  multiply_by_polynomial_loop(self, Polynomial(EmptyDict), other_poly_map,
                                    DOMAIN other_poly_map)

\* divide_terms
divide_terms(coefficient1, power1, coefficient2, power2) ==
    LET new_coeff == z256_div(coefficient1, coefficient2)
        new_pow   == power1 - power2
    IN  add_term(Polynomial(EmptyDict), new_coeff, new_pow)

(***************************************************************************)
(* Polynomial.remainder, in the pieces its loop is made of.                *)
(***************************************************************************)
\* the literal Polynomial({0:0}) of main.py:337
ZeroLiteral == [x \in {0} |-> 0]

\* the loop condition with > for >=
remainder_guard_strict(numerator_degree, denominator_degree) ==
    numerator_degree > denominator_degree /\ numerator_degree >= 0

\* the loop condition, main.py:328
remainder_guard(numerator_degree, denominator_degree) ==
    numerator_degree >= denominator_degree /\ numerator_degree >= 0

\* multiply_by, main.py:330-331
remainder_multiply_by(lead_coef, degree, divisor_lead_coef, divisor_degree) ==
    divide_terms(lead_coef, degree, divisor_lead_coef, divisor_degree)

\* increased_divisor, main.py:333
remainder_increased_divisor(denominator, multiply_by) ==
    multiply_by_polynomial(denominator, multiply_by)

\* a subtraction of the leading term of the increased divisor alone
remainder_subtract_leading_only(numerator, increased_divisor) ==
    subtract_term(numerator,
                  get_coefficient(increased_divisor,
                                  get_degree(increased_divisor)),
                  get_degree(increased_divisor))

\* the new numerator, main.py:336
remainder_subtract(numerator, increased_divisor) ==
    subtract_polynomial(numerator, increased_divisor)

\* one pass of the loop body up to the subtraction, main.py:330-336
remainder_step(numerator, denominator) ==
    remainder_subtract(
        numerator,
        remainder_increased_divisor(
            denominator,
            remainder_multiply_by(
                get_coefficient(numerator, get_degree(numerator)),
                get_degree(numerator),
                get_coefficient(denominator, get_degree(denominator)),
                get_degree(denominator))))

\* the zero check with its test inverted
remainder_break_inverted(numerator) ==
    ~PolyEq(numerator, Polynomial(ZeroLiteral))

\* the loop without its zero check
remainder_break_missing(numerator) == FALSE

\* the zero check that leaves the loop, main.py:337-338
remainder_break(numerator) == PolyEq(numerator, Polynomial(ZeroLiteral))

\* the whole loop for a denominator whose leading coefficient is not 0
RECURSIVE remainder_loop(_, _)
remainder_loop(numerator, denominator) ==
    IF ~remainder_guard(get_degree(numerator), get_degree(denominator))
    THEN numerator
    ELSE LET next == remainder_step(numerator, denominator)
         IN  IF remainder_break(next) THEN next
             ELSE remainder_loop(next, denominator)

\* Polynomial.remainder
remainder(self, denominator) ==
    remainder_loop(Polynomial(get_terms(self)), denominator)

(***************************************************************************)
(* The Reed-Solomon constructors.                                          *)
(***************************************************************************)
\* the message pass with the power one too high (n + k - idx)
message_step_off_by_one(message_polynomial, message, num_correction_bytes, idx) ==
    LET m_coefficient == message[idx + 1]
        m_power       == Len(message) + num_correction_bytes - idx
    IN  add_term(message_polynomial, m_coefficient, m_power)

\* one pass of the loop of create_message_polynomial, main.py:373-375
message_step(message_polynomial, message, num_correction_bytes, idx) ==
    LET m_coefficient == message[idx + 1]
        m_power       == Len(message) + num_correction_bytes - idx - 1
    IN  add_term(message_polynomial, m_coefficient, m_power)

RECURSIVE message_loop(_, _, _, _)
message_loop(message_polynomial, message, num_correction_bytes, idx) ==
    IF idx >= Len(message) THEN message_polynomial
    ELSE message_loop(
             message_step(message_polynomial, message, num_correction_bytes, idx),
             message, num_correction_bytes, idx + 1)

\* create_message_polynomial
create_message_polynomial(message, num_correction_bytes) ==
    message_loop(Polynomial(EmptyDict), message, num_correction_bytes, 0)

\* the start value Polynomial({0:1}) of main.py:390
OneLiteral == [x \in {0} |-> 1]

\* one pass of the loop of create_generator_polynomial, main.py:395-399
generator_step(generator_polynomial, idx) ==
    LET converted_constant == z256_power(2, idx) % FieldSize
        term_multiplier    ==
            Polynomial([x \in {0, 1} |-> IF x = 1 THEN 1 ELSE converted_constant])
    IN  multiply_by_polynomial(generator_polynomial, term_multiplier)

RECURSIVE generator_loop(_, _, _)
generator_loop(generator_polynomial, num_correction_bytes, idx) ==
    IF idx >= num_correction_bytes THEN generator_polynomial
    ELSE generator_loop(generator_step(generator_polynomial, idx),
                        num_correction_bytes, idx + 1)

\* create_generator_polynomial
create_generator_polynomial(num_correction_bytes) ==
    generator_loop(Polynomial(OneLiteral), num_correction_bytes, 0)

\* reed_solomon_correction, for num_correction_bytes >= 1
reed_solomon_correction(encoded_data, num_correction_bytes) ==
    remainder(create_message_polynomial(encoded_data, num_correction_bytes),
              create_generator_polynomial(num_correction_bytes))

(***************************************************************************)
(* The same methods with object identity.  Every method takes the heap h   *)
(* and returns [h |-> the heap afterwards, r |-> the object returned]; a   *)
(* Polynomial object is named by the dict object that is its _terms.       *)
(***************************************************************************)
\* a new dict object with the given content
Alloc(h, content) == [h |-> Append(h, content), r |-> Len(h) + 1]

\* dict(terms), main.py:48 and main.py:133
H_dict(h, terms) == Alloc(h, h[terms])

\* Polynomial.__init__ with terms = None, main.py:50
H_PolynomialNone(h) == Alloc(h, EmptyDict)

\* Polynomial.__init__ with a dict, main.py:47-48
H_Polynomial(h, terms) == H_dict(h, terms)

\* get_terms handing out self._terms itself, not a copy
H_get_terms_alias(h, self) == [h |-> h, r |-> self]

\* Polynomial.get_terms
H_get_terms(h, self) == H_dict(h, self)

\* Polynomial.add_term
H_add_term(h, self, c, p) ==
    LET poly_coef == get_coefficient(h[self], p)
        new_coef  == z256_add(poly_coef, c)
        poly_map  == H_get_terms(h, self)
        updated   == [poly_map.h EXCEPT
                         ![poly_map.r] = DictSet(@, p, new_coef)]
    IN  H_Polynomial(updated, poly_map.r)

\* Polynomial.subtract_term
H_subtract_term(h, self, c, p) ==
    LET poly_coef == get_coefficient(h[self], p)
        new_coef  == z256_add(poly_coef, c)
        poly_map  == H_get_terms(h, self)
        updated   == [poly_map.h EXCEPT
                         ![poly_map.r] = DictSet(@, p, new_coef)]
    IN  H_Polynomial(updated, poly_map.r)

\* Polynomial.multiply_by_term
H_multiply_by_term(h, self, c, p) ==
    LET poly_map == H_get_terms(h, self)
        content  == poly_map.h[poly_map.r]
        multiplied_poly_map ==
            Alloc(poly_map.h,
                  [q \in {k + p : k \in DOMAIN content} |->
                      z256_mul(content[q - p], c)])
    IN  H_Polynomial(multiplied_poly_map.h, multiplied_poly_map.r)

RECURSIVE H_add_polynomial_loop(_, _, _, _)
H_add_polynomial_loop(h, added, other_poly_map, keys) ==
    IF keys = {} THEN [h |-> h, r |-> added]
    ELSE LET other_power == MinKey(keys)
             other_coef  == h[other_poly_map][other_power]
             next        == H_add_term(h, added, other_coef, other_power)
         IN  H_add_polynomial_loop(next.h, next.r, other_poly_map,
                                   keys \ {other_power})

\* Polynomial.add_polynomial
H_add_polynomial(h, self, other_polynomial) ==
    LET own            == H_get_terms(h, self)
        added          == H_Polynomial(own.h, own.r)
        other_poly_map == H_get_terms(added.h, other_polynomial)
    IN  H_add_polynomial_loop(other_poly_map.h, added.r, other_poly_map.r,
                              DOMAIN other_poly_map.h[other_poly_map.r])

\* Polynomial.subtract_polynomial
H_subtract_polynomial(h, self, other_polynomial) ==
    LET own            == H_get_terms(h, self)
        subtracted     == H_Polynomial(own.h, own.r)
        other_poly_map == H_get_terms(subtracted.h, other_polynomial)
    IN  H_add_polynomial_loop(other_poly_map.h, subtracted.r, other_poly_map.r,
                              DOMAIN other_poly_map.h[other_poly_map.r])

RECURSIVE H_multiply_by_polynomial_loop(_, _, _, _, _)
H_multiply_by_polynomial_loop(h, self, multiplied_out, other_poly_map, keys) ==
    IF keys = {} THEN [h |-> h, r |-> multiplied_out]
    ELSE LET other_power     == MinKey(keys)
             other_coef      == h[other_poly_map][other_power]
             term_multiplied == H_multiply_by_term(h, self, other_coef,
                                                   other_power)
             next            == H_add_polynomial(term_multiplied.h,
                                                 multiplied_out,
                                                 term_multiplied.r)
         IN  H_multiply_by_polynomial_loop(next.h, self, next.r,
                                           other_poly_map,
                                           keys \ {other_power})

\* Polynomial.multiply_by_polynomial
H_multiply_by_polynomial(h, self, other_polynomial) ==
    LET multiplied_out == H_PolynomialNone(h)
        other_poly_map == H_get_terms(multiplied_out.h, other_polynomial)
    IN  H_multiply_by_polynomial_loop(
            other_poly_map.h, self, multiplied_out.r, other_poly_map.r,
            DOMAIN other_poly_map.h[other_poly_map.r])

\* divide_terms
H_divide_terms(h, coefficient1, power1, coefficient2, power2) ==
    LET new_coeff == z256_div(coefficient1, coefficient2)
        new_pow   == power1 - power2
        divided   == H_PolynomialNone(h)
    IN  H_add_term(divided.h, divided.r, new_coeff, new_pow)

\* the loop of remainder, main.py:328-342
RECURSIVE H_remainder_loop(_, _, _)
H_remainder_loop(h, numerator, denominator) ==
    LET numerator_degree      == get_degree(h[numerator])
        numerator_lead_coef   == get_coefficient(h[numerator], numerator_degree)
        denominator_degree    == get_degree(h[denominator])
        denominator_lead_coef ==
            get_coefficient(h[denominator], denominator_degree)
    IN  IF ~remainder_guard(numerator_degree, denominator_degree)
        THEN [h |-> h, r |-> numerator]
        ELSE LET multiply_by ==
                     H_divide_terms(h, numerator_lead_coef, numerator_degree,
                                    denominator_lead_coef, denominator_degree)
                 increased_divisor ==
                     H_multiply_by_polynomial(multiply_by.h, denominator,
                                              multiply_by.r)
                 subtracted ==
                     H_subtract_polynomial(increased_divisor.h, numerator,
                                           increased_divisor.r)
             IN  IF remainder_break(subtracted.h[subtracted.r])
                 THEN subtracted
                 ELSE H_remainder_loop(subtracted.h, subtracted.r, denominator)

\* Polynomial.remainder, for a denominator whose leading coefficient is not 0
H_remainder(h, self, denominator) ==
    LET unused    == H_PolynomialNone(h)
        own       == H_get_terms(unused.h, self)
        numerator == H_Polynomial(own.h, own.r)
    IN  H_remainder_loop(numerator.h, numerator.r, denominator)

\* z256.div fails in the first pass of remainder (main.py:330, main.py:19)
H_remainder_fails(h, denominator) ==
    z256_div_fails(0, get_coefficient(h[denominator],
                                      get_degree(h[denominator])))

(***************************************************************************)
(* Bounds of the checked instances.                                        *)
(***************************************************************************)
\* highest power stored in an enumerated numerator or denominator
MaxPower == 2

\* highest power stored in a polynomial of the runs checked for termination
MaxFairPower == 1

\* longest enumerated message
MaxLen == 3

\* largest enumerated number of correction bytes
MaxK == 3

\* coefficients stored in enumerated polynomials
Coefs == {0, 1, 2}

\* message bytes of enumerated messages
DataBytes == {0, 1, 32, 255}

\* coefficients handed to the term operators, inside and outside [0,255]
TermCoefs == {-1, 0, 1, 2, 255, 256}

\* every dict with keys in 0..maxPower and values in Coefs
DictsUpTo(maxPower) ==
    UNION {[S -> Coefs] : S \in SUBSET (0..maxPower)}

Messages == UNION {[1..n -> DataBytes] : n \in 0..MaxLen}

\* the worked example of the QR standard: message and correction byte count
ReferenceMessage ==
    <<32, 91, 11, 120, 209, 114, 220, 77, 67, 64, 236, 17, 236, 17, 236, 17>>

ReferenceCorrection == <<196, 35, 39, 119, 235, 215, 231, 226, 93, 23>>

(***************************************************************************)
(* State.  op is the top-level call being run and pc the position in it;  *)
(* the other variables are the locals of main.py of the same name.         *)
(* quotient is a history variable: the sum of the multiply_by terms of     *)
(* the passes of the remainder loop so far.                                *)
(* heap, polys and caller_dicts are the objects of the runs that follow    *)
(* object identity: heap[i] is the content of dict object i, polys[n] the  *)
(* dict object that is the _terms of the n-th Polynomial created, and      *)
(* caller_dicts the dict objects the caller holds a reference to.          *)
(***************************************************************************)
VARIABLES op, pc, result, raised,
          self_terms, denominator, numerator,
          numerator_degree, numerator_lead_coef,
          denominator_degree, denominator_lead_coef, quotient,
          encoded_data, num_correction_bytes, idx,
          message_polynomial, generator_polynomial,
          coefficient, power, coefficient2, power2,
          heap, polys, caller_dicts, steps

remVars  == <<self_terms, denominator, numerator, numerator_degree,
              numerator_lead_coef, denominator_degree, denominator_lead_coef,
              quotient>>
loopVars == <<numerator, numerator_degree, numerator_lead_coef,
              denominator_degree, denominator_lead_coef, quotient>>
rsVars   == <<encoded_data, num_correction_bytes, idx, message_polynomial,
              generator_polynomial>>
termVars == <<coefficient, power, coefficient2, power2>>
heapVars == <<heap, polys, caller_dicts, steps>>
vars     == <<op, pc, result, raised, remVars, rsVars, termVars, heapVars>>

InitRemLocals ==
    /\ numerator = EmptyDict /\ quotient = EmptyDict
    /\ numerator_degree = 0 /\ numerator_lead_coef = 0
    /\ denominator_degree = 0 /\ denominator_lead_coef = 0

InitRsIdle ==
    /\ encoded_data = <<>> /\ num_correction_bytes = 0 /\ idx = 0
    /\ message_polynomial = EmptyDict /\ generator_polynomial = EmptyDict

InitTermIdle ==
    coefficient = 0 /\ power = 0 /\ coefficient2 = 0 /\ power2 = 0

InitHeapIdle ==
    heap = <<>> /\ polys = <<>> /\ caller_dicts = {} /\ steps = 0

(***************************************************************************)
(* Polynomial.remainder, step by step.                                     *)
(***************************************************************************)
\* main.py:317-325
RemainderSetup ==
    /\ pc = "remainder"
    /\ numerator' = Polynomial(get_terms(self_terms))
    /\ numerator_degree' = get_degree(numerator')
    /\ numerator_lead_coef' = get_coefficient(numerator', numerator_degree')
    /\ denominator_degree' = get_degree(denominator)
    /\ denominator_lead_coef' = get_coefficient(denominator, denominator_degree')
    /\ quotient' = EmptyDict
    /\ pc' = "while"
    /\ UNCHANGED <<op, result, raised, self_terms, denominator, rsVars, termVars, heapVars>>

\* main.py:328, the condition holds
RemainderEnterBody ==
    /\ pc = "while"
    /\ remainder_guard(numerator_degree, denominator_degree)
    /\ pc' = "body"
    /\ UNCHANGED <<op, result, raised, remVars, rsVars, termVars, heapVars>>

\* main.py:328, the condition fails; main.py:345-346
RemainderExitLoop ==
    /\ pc = "while"
    /\ ~remainder_guard(numerator_degree, denominator_degree)
    /\ result' = numerator
    /\ pc' = "returned"
    /\ UNCHANGED <<op, raised, remVars, rsVars, termVars, heapVars>>

\* main.py:330-342; z256.div fails on a zero divisor inside divide_terms.
\* The locals multiply_by, increased_divisor and the new numerator are bound
\* once, as the assignments of main.py:330, 333 and 336 bind them.
RemainderBody ==
    /\ pc = "body"
    /\ IF z256_div_fails(numerator_lead_coef, denominator_lead_coef)
       THEN /\ raised' = "ZeroDivisionError"
            /\ pc' = "raised"
            /\ UNCHANGED <<result, loopVars>>
       ELSE \E multiply_by \in
                   {remainder_multiply_by(numerator_lead_coef, numerator_degree,
                        denominator_lead_coef, denominator_degree)} :
            \E increased_divisor \in
                   {remainder_increased_divisor(denominator, multiply_by)} :
            \E subtracted \in
                   {remainder_subtract(numerator, increased_divisor)} :
                /\ numerator' = subtracted
                /\ quotient' = add_polynomial(quotient, multiply_by)
                /\ UNCHANGED <<raised, denominator_degree,
                               denominator_lead_coef>>
                /\ IF remainder_break(subtracted)
                   THEN /\ result' = subtracted
                        /\ pc' = "returned"
                        /\ UNCHANGED <<numerator_degree, numerator_lead_coef>>
                   ELSE /\ numerator_degree' = get_degree(subtracted)
                        /\ numerator_lead_coef' =
                               get_coefficient(subtracted,
                                               get_degree(subtracted))
                        /\ pc' = "while"
                        /\ UNCHANGED result
    /\ UNCHANGED <<op, self_terms, denominator, rsVars, termVars, heapVars>>

\* the user calls p.remainder(r) on polynomials p and r with powers up to
\* maxPower
RemainderCall(maxPower) ==
    /\ pc = "idle"
    /\ self_terms' \in DictsUpTo(maxPower)
    /\ denominator' \in DictsUpTo(maxPower)
    /\ op' = "remainder"
    /\ pc' = "remainder"
    /\ UNCHANGED <<result, raised, loopVars, rsVars, termVars, heapVars>>

NextRem ==
    \/ RemainderCall(MaxPower)
    \/ RemainderSetup
    \/ RemainderEnterBody
    \/ RemainderExitLoop
    \/ RemainderBody

NextRemFair ==
    \/ RemainderCall(MaxFairPower)
    \/ RemainderSetup
    \/ RemainderEnterBody
    \/ RemainderExitLoop
    \/ RemainderBody

InitRem ==
    /\ op = "idle" /\ pc = "idle"
    /\ result = EmptyDict /\ raised = "none"
    /\ self_terms = EmptyDict /\ denominator = EmptyDict
    /\ InitRemLocals /\ InitRsIdle /\ InitTermIdle /\ InitHeapIdle

SpecRem == InitRem /\ [][NextRem]_vars

\* the interpreter runs the call to its end
FairSpecRem == InitRem /\ [][NextRemFair]_vars /\ WF_vars(NextRemFair)

(***************************************************************************)
(* reed_solomon_correction and create_generator_polynomial, step by step.  *)
(***************************************************************************)
\* main.py:372-375
MessageStep ==
    /\ pc = "message"
    /\ idx < Len(encoded_data)
    /\ message_polynomial' =
           message_step(message_polynomial, encoded_data,
                        num_correction_bytes, idx)
    /\ idx' = idx + 1
    /\ UNCHANGED <<op, pc, result, raised, remVars, encoded_data,
                   num_correction_bytes, generator_polynomial, termVars, heapVars>>

\* main.py:376, 417, 390
MessageDone ==
    /\ pc = "message"
    /\ idx >= Len(encoded_data)
    /\ generator_polynomial' = Polynomial(OneLiteral)
    /\ idx' = 0
    /\ pc' = "generator"
    /\ UNCHANGED <<op, result, raised, remVars, encoded_data,
                   num_correction_bytes, message_polynomial, termVars, heapVars>>

\* main.py:393-399
GeneratorStep ==
    /\ pc = "generator"
    /\ idx < num_correction_bytes
    /\ generator_polynomial' = generator_step(generator_polynomial, idx)
    /\ idx' = idx + 1
    /\ UNCHANGED <<op, pc, result, raised, remVars, encoded_data,
                   num_correction_bytes, message_polynomial, termVars, heapVars>>

\* main.py:401, create_generator_polynomial called on its own
GeneratorReturn ==
    /\ pc = "generator"
    /\ op = "create_generator_polynomial"
    /\ idx >= num_correction_bytes
    /\ result' = generator_polynomial
    /\ pc' = "returned"
    /\ UNCHANGED <<op, raised, remVars, rsVars, termVars, heapVars>>

\* main.py:401, 419: the generator goes to message_polynomial.remainder
CorrectionCallsRemainder ==
    /\ pc = "generator"
    /\ op = "reed_solomon_correction"
    /\ idx >= num_correction_bytes
    /\ self_terms' = message_polynomial
    /\ denominator' = generator_polynomial
    /\ pc' = "remainder"
    /\ UNCHANGED <<op, result, raised, loopVars, rsVars, termVars, heapVars>>

NextRS ==
    \/ MessageStep
    \/ MessageDone
    \/ GeneratorStep
    \/ GeneratorReturn
    \/ CorrectionCallsRemainder
    \/ RemainderSetup
    \/ RemainderEnterBody
    \/ RemainderExitLoop
    \/ RemainderBody

InitRS ==
    /\ result = EmptyDict /\ raised = "none"
    /\ self_terms = EmptyDict /\ denominator = EmptyDict
    /\ InitRemLocals /\ InitTermIdle /\ InitHeapIdle
    /\ idx = 0
    /\ message_polynomial = EmptyDict
    /\ \/ /\ op = "reed_solomon_correction" /\ pc = "message"
          /\ generator_polynomial = EmptyDict
          /\ \/ /\ encoded_data \in Messages
                /\ num_correction_bytes \in 1..MaxK
             \/ /\ encoded_data = ReferenceMessage
                /\ num_correction_bytes = Len(ReferenceCorrection)
       \/ /\ op = "create_generator_polynomial" /\ pc = "generator"
          /\ encoded_data = <<>>
          /\ num_correction_bytes \in 0..MaxK
          /\ generator_polynomial = Polynomial(OneLiteral)

Spec == InitRS /\ [][NextRS]_vars

(***************************************************************************)
(* The term operators, each called once on an enumerated receiver.         *)
(***************************************************************************)
\* z256.add refuses an operand outside the field (main.py:183, 208)
add_term_raises(self, c, p) == z256_rejects(get_coefficient(self, p), c)

\* z256.mul is reached once per stored term (main.py:234-235)
multiply_by_term_raises(self, c, p) ==
    \E q \in DOMAIN self : z256_rejects(self[q], c)

\* z256.div is the first statement of divide_terms (main.py:19)
divide_terms_failure(c1, c2) ==
    IF z256_rejects(c1, c2) THEN "InvalidCoefficient"
    ELSE IF z256_div_fails(c1, c2) THEN "ZeroDivisionError"
    ELSE "none"

\* Polynomial.add_term called by the user
AddTerm ==
    /\ pc = "term"
    /\ \E c \in TermCoefs, p \in 0..MaxPower :
          /\ coefficient' = c /\ power' = p
          /\ IF add_term_raises(self_terms, c, p)
             THEN raised' = "InvalidCoefficient" /\ pc' = "raised"
                  /\ UNCHANGED result
             ELSE result' = add_term(self_terms, c, p) /\ pc' = "returned"
                  /\ UNCHANGED raised
    /\ op' = "add_term"
    /\ UNCHANGED <<remVars, rsVars, coefficient2, power2, heapVars>>

\* Polynomial.subtract_term called by the user
SubtractTerm ==
    /\ pc = "term"
    /\ \E c \in TermCoefs, p \in 0..MaxPower :
          /\ coefficient' = c /\ power' = p
          /\ IF add_term_raises(self_terms, c, p)
             THEN raised' = "InvalidCoefficient" /\ pc' = "raised"
                  /\ UNCHANGED result
             ELSE result' = subtract_term(self_terms, c, p) /\ pc' = "returned"
                  /\ UNCHANGED raised
    /\ op' = "subtract_term"
    /\ UNCHANGED <<remVars, rsVars, coefficient2, power2, heapVars>>

\* Polynomial.multiply_by_term called by the user
MultiplyByTerm ==
    /\ pc = "term"
    /\ \E c \in TermCoefs, p \in 0..MaxPower :
          /\ coefficient' = c /\ power' = p
          /\ IF multiply_by_term_raises(self_terms, c, p)
             THEN raised' = "InvalidCoefficient" /\ pc' = "raised"
                  /\ UNCHANGED result
             ELSE result' = multiply_by_term(self_terms, c, p)
                  /\ pc' = "returned"
                  /\ UNCHANGED raised
    /\ op' = "multiply_by_term"
    /\ UNCHANGED <<remVars, rsVars, coefficient2, power2, heapVars>>

\* divide_terms called by the user
DivideTerms ==
    /\ pc = "term"
    /\ \E c1 \in TermCoefs, p1 \in 0..MaxPower,
          c2 \in TermCoefs, p2 \in 0..MaxPower :
          /\ coefficient' = c1 /\ power' = p1
          /\ coefficient2' = c2 /\ power2' = p2
          /\ IF divide_terms_failure(c1, c2) # "none"
             THEN raised' = divide_terms_failure(c1, c2) /\ pc' = "raised"
                  /\ UNCHANGED result
             ELSE result' = divide_terms(c1, p1, c2, p2) /\ pc' = "returned"
                  /\ UNCHANGED raised
    /\ op' = "divide_terms"
    /\ UNCHANGED <<remVars, rsVars, heapVars>>

NextTerm ==
    \/ AddTerm
    \/ SubtractTerm
    \/ MultiplyByTerm
    \/ DivideTerms

InitTerm ==
    /\ op = "term" /\ pc = "term"
    /\ result = EmptyDict /\ raised = "none"
    /\ self_terms \in DictsUpTo(MaxPower)
    /\ denominator = EmptyDict
    /\ InitRemLocals /\ InitRsIdle /\ InitTermIdle /\ InitHeapIdle

SpecTerm == InitTerm /\ [][NextTerm]_vars

(***************************************************************************)
(* A caller that builds polynomials, calls their methods, keeps the dicts  *)
(* it passed in or got back, and writes to those dicts.  Dict objects that *)
(* nothing refers to any more are dropped and the rest renumbered.         *)
(***************************************************************************)
\* number of calls of one run
MaxSteps == 4

\* powers and coefficients the caller uses
HeapPowers == {0, 1}

HeapCoefs == {0, 1, 2}

\* the dict literals the caller writes
CallerLiterals ==
    {EmptyDict, [x \in {0} |-> 1], [x \in {0, 1} |-> IF x = 0 THEN 2 ELSE 1]}

Collect(h, ps, cd) ==
    LET live     == {ps[n] : n \in DOMAIN ps} \cup cd
        Rank(id) == Cardinality({x \in live : x <= id})
    IN  [heap |-> [k \in 1..Cardinality(live) |->
                      h[CHOOSE id \in live : Rank(id) = k]],
         polys |-> [n \in DOMAIN ps |-> Rank(ps[n])],
         caller_dicts |-> {Rank(d) : d \in cd}]

\* the state after a call that left heap h, Polynomials ps, caller dicts cd
HeapAfter(h, ps, cd, name) ==
    LET c == Collect(h, ps, cd)
    IN  /\ heap' = c.heap
        /\ polys' = c.polys
        /\ caller_dicts' = c.caller_dicts
        /\ steps' = steps + 1
        /\ op' = name
        /\ UNCHANGED <<pc, result, remVars, rsVars, termVars>>

\* the caller writes a dict literal
CallerNewDict ==
    /\ steps < MaxSteps
    /\ \E content \in CallerLiterals :
          LET d == Alloc(heap, content)
          IN  HeapAfter(d.h, polys, caller_dicts \cup {d.r}, "dict")
    /\ UNCHANGED raised

\* the caller assigns d[k] = v in a dict it holds
CallerWritesDict ==
    /\ steps < MaxSteps
    /\ \E d \in caller_dicts, k \in HeapPowers, v \in HeapCoefs :
          HeapAfter([heap EXCEPT ![d] = DictSet(@, k, v)], polys, caller_dicts,
                    "write")
    /\ UNCHANGED raised

\* Polynomial()
NewPolynomialNone ==
    /\ steps < MaxSteps
    /\ LET n == H_PolynomialNone(heap)
       IN  HeapAfter(n.h, Append(polys, n.r), caller_dicts, "Polynomial")
    /\ UNCHANGED raised

\* Polynomial(d) for a dict d of the caller
NewPolynomial ==
    /\ steps < MaxSteps
    /\ \E d \in caller_dicts :
          LET n == H_Polynomial(heap, d)
          IN  HeapAfter(n.h, Append(polys, n.r), caller_dicts, "Polynomial")
    /\ UNCHANGED raised

\* d = p.get_terms()
GetTerms ==
    /\ steps < MaxSteps
    /\ \E n \in DOMAIN polys :
          LET d == H_get_terms(heap, polys[n])
          IN  HeapAfter(d.h, polys, caller_dicts \cup {d.r}, "get_terms")
    /\ UNCHANGED raised

\* p.add_term(c, k)
HeapAddTerm ==
    /\ steps < MaxSteps
    /\ \E n \in DOMAIN polys, c \in HeapCoefs, k \in HeapPowers :
          LET q == H_add_term(heap, polys[n], c, k)
          IN  HeapAfter(q.h, Append(polys, q.r), caller_dicts, "add_term")
    /\ UNCHANGED raised

\* p.subtract_term(c, k)
HeapSubtractTerm ==
    /\ steps < MaxSteps
    /\ \E n \in DOMAIN polys, c \in HeapCoefs, k \in HeapPowers :
          LET q == H_subtract_term(heap, polys[n], c, k)
          IN  HeapAfter(q.h, Append(polys, q.r), caller_dicts,
                        "subtract_term")
    /\ UNCHANGED raised

\* p.multiply_by_term(c, k)
HeapMultiplyByTerm ==
    /\ steps < MaxSteps
    /\ \E n \in DOMAIN polys, c \in HeapCoefs, k \in HeapPowers :
          LET q == H_multiply_by_term(heap, polys[n], c, k)
          IN  HeapAfter(q.h, Append(polys, q.r), caller_dicts,
                        "multiply_by_term")
    /\ UNCHANGED raised

\* p.add_polynomial(o); o may be p itself
HeapAddPolynomial ==
    /\ steps < MaxSteps
    /\ \E n \in DOMAIN polys, o \in DOMAIN polys :
          LET q == H_add_polynomial(heap, polys[n], polys[o])
          IN  HeapAfter(q.h, Append(polys, q.r), caller_dicts,
                        "add_polynomial")
    /\ UNCHANGED raised

\* p.subtract_polynomial(o)
HeapSubtractPolynomial ==
    /\ steps < MaxSteps
    /\ \E n \in DOMAIN polys, o \in DOMAIN polys :
          LET q == H_subtract_polynomial(heap, polys[n], polys[o])
          IN  HeapAfter(q.h, Append(polys, q.r), caller_dicts,
                        "subtract_polynomial")
    /\ UNCHANGED raised

\* p.multiply_by_polynomial(o)
HeapMultiplyByPolynomial ==
    /\ steps < MaxSteps
    /\ \E n \in DOMAIN polys, o \in DOMAIN polys :
          LET q == H_multiply_by_polynomial(heap, polys[n], polys[o])
          IN  HeapAfter(q.h, Append(polys, q.r), caller_dicts,
                        "multiply_by_polynomial")
    /\ UNCHANGED raised

\* p.remainder(o); a zero o makes z256.div fail and no Polynomial is returned
HeapRemainder ==
    /\ steps < MaxSteps
    /\ \E n \in DOMAIN polys, o \in DOMAIN polys :
          IF H_remainder_fails(heap, polys[o])
          THEN /\ raised' = "ZeroDivisionError"
               /\ HeapAfter(heap, polys, caller_dicts, "remainder")
          ELSE /\ LET q == H_remainder(heap, polys[n], polys[o])
                  IN  HeapAfter(q.h, Append(polys, q.r), caller_dicts,
                                "remainder")
               /\ UNCHANGED raised

NextHeap ==
    \/ CallerNewDict
    \/ CallerWritesDict
    \/ NewPolynomialNone
    \/ NewPolynomial
    \/ GetTerms
    \/ HeapAddTerm
    \/ HeapSubtractTerm
    \/ HeapMultiplyByTerm
    \/ HeapAddPolynomial
    \/ HeapSubtractPolynomial
    \/ HeapMultiplyByPolynomial
    \/ HeapRemainder

InitHeap ==
    /\ op = "idle" /\ pc = "heap"
    /\ result = EmptyDict /\ raised = "none"
    /\ self_terms = EmptyDict /\ denominator = EmptyDict
    /\ InitRemLocals /\ InitRsIdle /\ InitTermIdle /\ InitHeapIdle

SpecHeap == InitHeap /\ [][NextHeap]_vars

(***************************************************************************)
(* Properties.                                                             *)
(***************************************************************************)
\* the zero polynomial: no stored coefficient differs from 0
IsZeroPoly(terms) == \A p \in DOMAIN terms : terms[p] = 0

\* the bytes read from get_coefficient(k-1) down to get_coefficient(0)
CorrectionBytes(terms, k) == [i \in 1..k |-> get_coefficient(terms, k - i)]

CorrectionReturned ==
    op = "reed_solomon_correction" /\ pc = "returned"

\* C1: reed_solomon_correction on the reference message with k = 10 returns
\* a polynomial whose coefficients at powers 9 down to 0 are the reference
\* error-correction bytes 196, 35, 39, 119, 235, 215, 231, 226, 93, 23.
C1_ReferenceExample ==
    (CorrectionReturned /\ encoded_data = ReferenceMessage
                        /\ num_correction_bytes = Len(ReferenceCorrection))
        => CorrectionBytes(result, num_correction_bytes) = ReferenceCorrection

C1_Witness ==
    /\ CorrectionReturned
    /\ encoded_data = ReferenceMessage
    /\ num_correction_bytes = Len(ReferenceCorrection)
    /\ get_coefficient(result, 9) = 196

\* C2: for every message of bytes (the empty one included) and every k >= 1,
\* reed_solomon_correction returns (it does not fail) a polynomial with
\* coefficient 0 at every power >= k and a coefficient of [0,255] at each of
\* the powers 0..k-1.
C2_CorrectionHasKBytes ==
    /\ op = "reed_solomon_correction" => pc # "raised"
    /\ CorrectionReturned =>
          /\ \A p \in DOMAIN result :
                p >= num_correction_bytes => result[p] = 0
          /\ \A p \in 0..(num_correction_bytes - 1) :
                InField(get_coefficient(result, p))

C2_Witness ==
    /\ CorrectionReturned
    /\ Len(encoded_data) = 2
    /\ num_correction_bytes = 2
    /\ \A i \in 1..2 : CorrectionBytes(result, 2)[i] # 0
    /\ \E p \in DOMAIN result : p >= num_correction_bytes

RemainderReturned == op = "remainder" /\ pc = "returned"

\* C3 as stated: for every p and every non-zero r, constants included,
\* p.remainder(r).get_degree() < r.get_degree().
C3_AsStated ==
    (RemainderReturned /\ ~IsZeroPoly(denominator))
        => get_degree(result) < get_degree(denominator)

\* C3 amended: for every p and every non-zero r with r.get_degree() >= 1,
\* p.remainder(r).get_degree() < r.get_degree(); for a non-zero constant r
\* the remainder is the zero polynomial, whose get_degree() is 0.
C3_RemainderDegree ==
    (RemainderReturned /\ ~IsZeroPoly(denominator))
        => IF get_degree(denominator) >= 1
           THEN get_degree(result) < get_degree(denominator)
           ELSE IsZeroPoly(result) /\ get_degree(result) = 0

C3_Witness ==
    /\ RemainderReturned
    /\ get_degree(denominator) = 1
    /\ get_degree(self_terms) = 2
    /\ ~IsZeroPoly(quotient)
    /\ ~IsZeroPoly(result)

\* C4: for every k >= 0, create_generator_polynomial(k) returns a polynomial
\* of degree k with coefficient 1 at power k, and after every pass i of its
\* loop the product has degree i+1 with leading coefficient 1.
C4_GeneratorMonic ==
    /\ pc = "generator" =>
          /\ get_degree(generator_polynomial) = idx
          /\ get_coefficient(generator_polynomial, idx) = 1
    /\ (op = "create_generator_polynomial" /\ pc = "returned") =>
          /\ get_degree(result) = num_correction_bytes
          /\ get_coefficient(result, num_correction_bytes) = 1

C4_Witness ==
    /\ op = "create_generator_polynomial" /\ pc = "returned"
    /\ num_correction_bytes = 2
    /\ get_degree(result) = 2

\* the mapping of the n-th Polynomial
TermsOf(n) == heap[polys[n]]

\* C5: no call changes the power->coefficient mapping of a Polynomial that
\* existed before it, receiver and argument included, and no write of the
\* caller to a dict it passed to the constructor or got from get_terms()
\* changes one either.
C5_NoMutation ==
    [][\A n \in DOMAIN polys :
          n \in DOMAIN polys' /\ heap'[polys'[n]] = heap[polys[n]]]_vars

C5_Witness ==
    /\ op = "write"
    /\ Len(polys) = 1
    /\ Cardinality(caller_dicts) = 1
    /\ \E d \in caller_dicts : heap[d] # TermsOf(1) /\ DOMAIN heap[d] = {0, 1}
    /\ TermsOf(1) = EmptyDict

\* C6: divide_terms called with power1 < power2 and coefficient2 # 0 fails;
\* it never returns a Polynomial.
C6_AsStated ==
    (op = "divide_terms" /\ power < power2 /\ coefficient2 # 0)
        => pc = "raised"

\* C7: remainder called with a zero denominator is rejected before the
\* elimination loop is entered, for every numerator.
C7_AsStated ==
    (op = "remainder" /\ IsZeroPoly(denominator)) => pc # "body"

\* C8: every term operator rejects a coefficient outside [0,255] for every
\* receiver, the empty polynomial included.
C8_AsStated ==
    /\ (op \in {"add_term", "subtract_term", "multiply_by_term"}
            /\ ~InField(coefficient)) => pc = "raised"
    /\ (op = "divide_terms"
            /\ (~InField(coefficient) \/ ~InField(coefficient2)))
          => pc = "raised"

\* a pass of the loop of remainder over a non-zero denominator
LoopPass == pc = "body" /\ ~IsZeroPoly(denominator)

\* C9: for every numerator and every non-zero denominator the loop of
\* remainder terminates, and every pass strictly reduces get_degree() of the
\* working polynomial, except a pass that leaves it equal to the zero
\* polynomial, which leaves the loop at once.
C9_LoopTerminates ==
    /\ [][LoopPass =>
             IF PolyEq(numerator', ZeroLiteral)
             THEN pc' = "returned"
             ELSE get_degree(numerator') < get_degree(numerator)]_vars
    /\ ((op = "remainder" /\ ~IsZeroPoly(denominator)) ~> (pc = "returned"))

C9_Witness ==
    /\ RemainderReturned
    /\ IsZeroPoly(self_terms)
    /\ ~IsZeroPoly(denominator)
    /\ get_degree(denominator) = 0
    /\ quotient # EmptyDict

\* C10: for every p and every non-zero r, with rem = p.remainder(r),
\* p.subtract_polynomial(rem).remainder(r) equals the zero polynomial, and
\* throughout the loop p equals r times the quotient so far plus the working
\* polynomial.
C10_EuclideanRemainder ==
    (op = "remainder" /\ ~IsZeroPoly(denominator)) =>
        /\ pc \in {"while", "body", "returned"} =>
              PolyEq(self_terms,
                     add_polynomial(
                         multiply_by_polynomial(denominator, quotient),
                         numerator))
        /\ pc = "returned" =>
              PolyEq(remainder(subtract_polynomial(self_terms, result),
                               denominator),
                     Polynomial(ZeroLiteral))

C10_Witness ==
    /\ RemainderReturned
    /\ get_degree(denominator) = 1
    /\ get_degree(self_terms) = 2
    /\ get_degree(quotient) = 1
    /\ ~IsZeroPoly(result)
    /\ get_coefficient(denominator, 1) = 2

=============================================================================
